---- MODULE Spec2Model ----
(***************************************************************************)
(* Electricity detector (main.py): check_power_status polls each house's   *)
(* telemetry endpoint, compares the observation with the record kept in a *)
(* GCS blob, notifies through ntfy.sh on a change and saves the new state. *)
(*                                                                         *)
(* Text (blob contents, statuses, timestamps) is modelled as sequences of  *)
(* one-character strings so that split(" "), isoformat() and               *)
(* fromisoformat() are computed and not assumed.  An optional value        *)
(* (None or x) is the sequence <<>> or <<x>>.                              *)
(***************************************************************************)
EXTENDS Integers, Sequences, FiniteSets, TLC

VARIABLES
    houses,             \* the mapping passed to check_power_status, in iteration order
    bucket,             \* GCS bucket: house -> <<>> (no blob) or <<text>>
    clock,              \* datetime.now(), in whole seconds
    pc,                 \* position of check_power_status
    i,                  \* index of the house being processed
    current_status,     \* local of check_power_status
    battery_percentage, \* local of check_power_status
    status,             \* local: result of get_last_status_from_bucket
    time_diff,          \* local: now - last_time, in seconds
    result,             \* return value: <<>> (None) or <<[msg, code]>>
    \* ---- history of the running tick (observers, not read by the code) ----
    fetches,            \* house -> number of requests.get calls in this tick
    fetchFail,          \* house -> "none" or the kind of fetch failure
    obs,                \* house -> <<>> or <<observed status>>
    reads,              \* house -> number of reads of the record in this tick
    readError,          \* houses whose blob download raised in this tick
    notes,              \* house -> sequence of notifications posted in this tick (span: the seconds formatted)
    writes,             \* house -> sequence of uploads attempted in this tick
    bucket0,            \* the bucket when the tick started
    \* ---- history across ticks ----
    prevObs,            \* obs of the previous tick
    prevNotes,          \* number of notifications per house in the previous tick
    prevWriteFail,      \* houses whose upload failed in the previous tick
    prevSound,          \* houses whose blob was absent or a record when the previous tick started
    nticks              \* number of ticks started

vars == <<houses, bucket, clock, pc, i, current_status, battery_percentage,
          status, time_diff, result, fetches, fetchFail, obs, reads, readError,
          notes, writes, bucket0, prevObs, prevNotes, prevWriteFail, prevSound,
          nticks>>

tickVars == <<fetches, fetchFail, obs, reads, readError, notes, writes>>
prevVars == <<prevObs, prevNotes, prevWriteFail, prevSound, bucket0, nticks>>
localVars == <<current_status, battery_percentage, status, time_diff>>

\* ------------------------------------------------------------------ bounds
MaxTicks == 3
MaxClock == 2

\* ------------------------------------------------------------------- text
ON == <<"O", "N">>
OFF == <<"O", "F", "F">>
SP == " "

Sites == {"samisamisami", "tete"}

DigitChars == <<"0", "1", "2", "3", "4", "5", "6", "7", "8", "9">>

RECURSIVE Digits(_)
Digits(n) ==
    IF n < 10 THEN <<DigitChars[n + 1]>>
    ELSE Digits(n \div 10) \o <<DigitChars[(n % 10) + 1]>>

\* a variant that renders the date-time as str() does, with a space
isoformat_space(t) == <<"T", " ">> \o Digits(t)

\* datetime.isoformat(): the date-time as text without a space
isoformat(t) == <<"T">> \o Digits(t)

IsDigit(c) == \E d \in 1..10 : DigitChars[d] = c

DigitVal(c) == (CHOOSE d \in 1..10 : DigitChars[d] = c) - 1

RECURSIVE Number(_)
Number(w) ==
    IF Len(w) = 1 THEN DigitVal(w[1])
    ELSE 10 * Number(SubSeq(w, 1, Len(w) - 1)) + DigitVal(w[Len(w)])

\* datetime.fromisoformat accepts w (otherwise it raises ValueError)
IsIso(w) ==
    /\ Len(w) >= 2
    /\ w[1] = "T"
    /\ \A k \in 2..Len(w) : IsDigit(w[k])

fromisoformat(w) == Number(SubSeq(w, 2, Len(w)))

\* a variant that splits on a separator the text does not contain
split_whole(s) == <<s>>

\* str.split(" "): the pieces between single spaces
RECURSIVE split(_)
split(s) ==
    IF \A k \in 1..Len(s) : s[k] # SP THEN <<s>>
    ELSE LET k == CHOOSE k \in 1..Len(s) : s[k] = SP /\ \A j \in 1..(k - 1) : s[j] # SP
         IN  <<SubSeq(s, 1, k - 1)>> \o split(SubSeq(s, k + 1, Len(s)))

\* ---------------------------------------------------------------- storage
STATUS_FILE_NAME == "elec_status.txt"

\* a variant that names every house's blob alike
blob_name_shared(house_) == <<STATUS_FILE_NAME>>

\* bucket.blob(f"{house}_{STATUS_FILE_NAME}"): the name of the house's blob
blob_name(house_) == <<house_, "_", STATUS_FILE_NAME>>

BlobNames == {blob_name(h) : h \in Sites}

\* a variant that answers a default pair where the code answers None
get_last_status_default(blob, ioError) ==
    IF ioError \/ blob = <<>> THEN << <<OFF, isoformat(0)>> >>
    ELSE LET ws == split(blob[1])
         IN  IF Len(ws) < 2 THEN << <<OFF, isoformat(0)>> >> ELSE << <<ws[1], ws[2]>> >>

\* get_last_status_from_bucket: None on any exception (download error,
\* missing blob, IndexError of [1]), else the first two pieces
get_last_status_from_bucket(blob, ioError) ==
    IF ioError \/ blob = <<>> THEN <<>>
    ELSE LET ws == split(blob[1])
         IN  IF Len(ws) < 2 THEN <<>> ELSE << <<ws[1], ws[2]>> >>

\* the text save_current_status_to_bucket uploads
StatusText_notime(st, now) == st

StatusText(st, now) == st \o <<SP>> \o isoformat(now)

\* the blob holds a record "<ON|OFF> <timestamp>"
IsRecord(blob) ==
    /\ blob # <<>>
    /\ \E st \in {ON, OFF} :
         /\ Len(blob[1]) > Len(st) + 1
         /\ SubSeq(blob[1], 1, Len(st) + 1) = st \o <<SP>>
         /\ IsIso(SubSeq(blob[1], Len(st) + 2, Len(blob[1])))

\* the power state of a record
HeldState(blob) ==
    CHOOSE st \in {ON, OFF} : SubSeq(blob[1], 1, Len(st) + 1) = st \o <<SP>>

\* ---------------------------------------------------------- notification
\* a variant that tests the hours alone first
FormatDuration_hoursfirst(total_seconds) ==
    LET hours == total_seconds \div 3600
        minutes == (total_seconds % 3600) \div 60
    IN  IF hours > 0 THEN <<ToString(hours), "Hours">>
        ELSE IF hours > 0 /\ minutes > 0
            THEN <<ToString(hours), "Hours", ToString(minutes), "Minutes">>
        ELSE IF minutes > 0 THEN <<ToString(minutes), "Minutes">>
        ELSE <<"Less than a minute">>

FormatDuration(total_seconds) ==
    LET hours == total_seconds \div 3600
        minutes == (total_seconds % 3600) \div 60
    IN  IF hours > 0 /\ minutes > 0
            THEN <<ToString(hours), "Hours", ToString(minutes), "Minutes">>
        ELSE IF hours > 0 THEN <<ToString(hours), "Hours">>
        ELSE IF minutes > 0 THEN <<ToString(minutes), "Minutes">>
        ELSE <<"Less than a minute">>

TOPIC(house) == <<"home_elec_detector_", house>>

TITLE_swapped(electricity_on) ==
    IF electricity_on THEN "Electricity is OFF." ELSE "Electricity is ON!"

TITLE(electricity_on) ==
    IF electricity_on THEN "Electricity is ON!" ELSE "Electricity is OFF."

MESSAGE(time_diff_, battery, electricity_on) ==
    [battery |-> battery,
     stayed |-> IF electricity_on THEN OFF ELSE ON,
     duration |-> FormatDuration(time_diff_)]

\* does send_notification raise when requests.post raised?  (except Exception)
NotifyRaises_uncaught(postFailed) == postFailed

NotifyRaises(postFailed) == FALSE

\* --------------------------------------------------------------- telemetry
\* A response of requests.get: a transport error, or an HTTP status and a
\* body.  A body is JSON or not; gd / bt are dat.gd_status and dat.bt_status
\* (their [0].status and [0].val, in tenths for val), <<>> when missing.
GoodBodies == {[json |-> TRUE, gd |-> <<g>>, bt |-> <<579>>] : g \in {-1, 0, 1}}

Bodies ==
    GoodBodies \cup
    {[json |-> FALSE, gd |-> <<>>, bt |-> <<>>],
     [json |-> TRUE, gd |-> <<>>, bt |-> <<579>>],
     [json |-> TRUE, gd |-> <<1>>, bt |-> <<>>]}

Responses ==
    {[transport |-> FALSE, code |-> 200, body |-> b] : b \in Bodies} \cup
    {[transport |-> FALSE, code |-> c, body |-> [json |-> TRUE, gd |-> <<1>>, bt |-> <<579>>]] : c \in {404, 503}} \cup
    {[transport |-> TRUE, code |-> 0, body |-> [json |-> FALSE, gd |-> <<>>, bt |-> <<>>]]}

\* response.raise_for_status() raises HTTPError for a 4xx or 5xx status
RaisesForStatus(code) == code >= 400 /\ code < 600

\* lines 77-88 complete without an exception
FetchOK_nostatus(resp) ==
    /\ ~resp.transport
    /\ resp.body.json
    /\ resp.body.gd # <<>>
    /\ resp.body.bt # <<>>

FetchOK(resp) ==
    /\ ~resp.transport
    /\ ~RaisesForStatus(resp.code)
    /\ resp.body.json
    /\ resp.body.gd # <<>>
    /\ resp.body.bt # <<>>

\* int(float(val)): truncation toward zero of a value given in tenths
Truncate(val10) == IF val10 >= 0 THEN val10 \div 10 ELSE -((-val10) \div 10)

StatusOf(resp) == IF resp.body.gd[1] > 0 THEN ON ELSE OFF

\* line 110
StatusChanged_always(cur, last) == TRUE

StatusChanged(cur, last) == cur # last

ErrorResult(msg) == <<[msg |-> msg, code |-> 500]>>

SuccessResult == <<[msg |-> "Function executed successfully", code |-> 200]>>

\* -------------------------------------------------------------------- Init
house == houses[i]

NoLocals ==
    /\ current_status = <<>>
    /\ battery_percentage = 0
    /\ status = <<>>
    /\ time_diff = 0

\* blob contents a tick can find: none, a record the program wrote, or text
\* of another shape put there from outside
InitBlobs ==
    {<<>>,
     <<StatusText(ON, 0)>>,
     <<StatusText(OFF, 0)>>,
     <<ON>>,
     <<ON \o <<SP, "x">>>>,
     <<OFF \o <<SP, SP>> \o isoformat(0)>>,
     <<<<"o", "n", SP>> \o isoformat(0)>>}

\* the non-empty mappings over Sites, in each iteration order
Mappings ==
    {<<h>> : h \in Sites} \cup
    {<<h, g>> : <<h, g>> \in {p \in Sites \X Sites : p[1] # p[2]}}

Configured == {houses[k] : k \in 1..Len(houses)}

Init ==
    /\ houses \in Mappings
    /\ bucket \in [BlobNames -> InitBlobs]
    /\ \A h \in Sites : h \notin {houses[k] : k \in 1..Len(houses)} => bucket[blob_name(h)] = <<>>
    /\ clock = 0
    /\ pc = "idle"
    /\ i = 1
    /\ NoLocals
    /\ result = <<>>
    /\ fetches = [h \in Sites |-> 0]
    /\ fetchFail = [h \in Sites |-> "none"]
    /\ obs = [h \in Sites |-> <<>>]
    /\ reads = [h \in Sites |-> 0]
    /\ readError = {}
    /\ notes = [h \in Sites |-> <<>>]
    /\ writes = [h \in Sites |-> <<>>]
    /\ bucket0 = bucket
    /\ prevObs = [h \in Sites |-> <<>>]
    /\ prevNotes = [h \in Sites |-> 0]
    /\ prevWriteFail = {}
    /\ prevSound = {}
    /\ nticks = 0

\* clock readings for the runs that exercise the text functions
Stamps == {0, 45, 125, 3600, 3725}

\* as Init, for one house with a record the program wrote (or none), at a
\* later time of day
InitText ==
    /\ \E h \in Sites : houses = <<h>>
    /\ bucket \in [BlobNames -> {<<>>, <<StatusText(ON, 0)>>, <<StatusText(OFF, 0)>>}]
    /\ \A h \in Sites : h \notin {houses[k] : k \in 1..Len(houses)} => bucket[blob_name(h)] = <<>>
    /\ clock \in Stamps
    /\ pc = "idle"
    /\ i = 1
    /\ NoLocals
    /\ result = <<>>
    /\ fetches = [h \in Sites |-> 0]
    /\ fetchFail = [h \in Sites |-> "none"]
    /\ obs = [h \in Sites |-> <<>>]
    /\ reads = [h \in Sites |-> 0]
    /\ readError = {}
    /\ notes = [h \in Sites |-> <<>>]
    /\ writes = [h \in Sites |-> <<>>]
    /\ bucket0 = bucket
    /\ prevObs = [h \in Sites |-> <<>>]
    /\ prevNotes = [h \in Sites |-> 0]
    /\ prevWriteFail = {}
    /\ prevSound = {}
    /\ nticks = 0

\* ----------------------------------------------------------------- actions
\* a return statement of check_power_status: the locals die with the call
Return(res) ==
    /\ pc' = "done"
    /\ result' = res
    /\ current_status' = <<>>
    /\ battery_percentage' = 0
    /\ status' = <<>>
    /\ time_diff' = 0
    /\ i' = 1

\* cloud_function_entry / __main__: one tick starts
cloud_function_entry ==
    /\ pc \in {"idle", "done"}
    /\ nticks < MaxTicks
    /\ nticks' = nticks + 1
    /\ pc' = "fetch"
    /\ i' = 1
    /\ result' = <<>>
    /\ bucket0' = bucket
    /\ prevObs' = obs
    /\ prevNotes' = [h \in Sites |-> Len(notes[h])]
    /\ prevWriteFail' = {h \in Sites : \E k \in 1..Len(writes[h]) : ~writes[h][k].ok}
    /\ fetches' = [h \in Sites |-> 0]
    /\ fetchFail' = [h \in Sites |-> "none"]
    /\ obs' = [h \in Sites |-> <<>>]
    /\ reads' = [h \in Sites |-> 0]
    /\ readError' = {}
    /\ notes' = [h \in Sites |-> <<>>]
    /\ writes' = [h \in Sites |-> <<>>]
    /\ prevSound' = {h \in Sites : bucket0[blob_name(h)] = <<>> \/ IsRecord(bucket0[blob_name(h)])}
    /\ UNCHANGED <<houses, bucket, clock, localVars>>

\* which step of lines 77-88 raised, told from the response alone
FailureKind(resp) ==
    IF resp.transport THEN "transport"
    ELSE IF resp.code < 200 \/ resp.code > 299 THEN "http"
    ELSE IF ~resp.body.json THEN "json"
    ELSE IF resp.body.gd = <<>> \/ resp.body.bt = <<>> THEN "shape"
    ELSE "none"

\* lines 76-92
Fetch ==
    /\ pc = "fetch"
    /\ \E resp \in Responses :
        /\ fetches' = [fetches EXCEPT ![house] = @ + 1]
        /\ fetchFail' = [fetchFail EXCEPT ![house] = FailureKind(resp)]
        /\ IF FetchOK(resp)
           THEN /\ current_status' = StatusOf(resp)
                /\ battery_percentage' = Truncate(resp.body.bt[1])
                /\ obs' = [obs EXCEPT ![house] = <<StatusOf(resp)>>]
                /\ pc' = "read"
                /\ UNCHANGED <<i, status, time_diff, result>>
           ELSE /\ Return(ErrorResult("Error in watchpower api"))
                /\ UNCHANGED obs
    /\ UNCHANGED <<houses, bucket, clock, reads, readError, notes, writes, prevVars>>

\* line 96 and the test of line 97
Read ==
    /\ pc = "read"
    /\ \E ioError \in (IF bucket[blob_name(house)] = <<>> THEN {FALSE} ELSE BOOLEAN) :
        /\ status' = get_last_status_from_bucket(bucket[blob_name(house)], ioError)
        /\ readError' = IF ioError THEN readError \cup {house} ELSE readError
    /\ reads' = [reads EXCEPT ![house] = @ + 1]
    /\ pc' = IF status' = <<>> THEN "save" ELSE "diff"
    /\ UNCHANGED <<houses, bucket, clock, i, current_status, battery_percentage,
                   time_diff, result, fetches, fetchFail, obs, notes, writes, prevVars>>

\* a variant that saves a changed status without notifying
Diff_nonotify ==
    /\ pc = "diff"
    /\ LET last_status == status[1][1]
           last_time == status[1][2]
       IN  IF ~IsIso(last_time)
           THEN Return(ErrorResult("Error in retrieving past status or writing it, or sending notification"))
           ELSE IF StatusChanged(current_status, last_status)
           THEN /\ time_diff' = clock - fromisoformat(last_time)
                /\ pc' = "save"
                /\ UNCHANGED <<i, current_status, battery_percentage, status, result>>
           ELSE Return(SuccessResult)
    /\ UNCHANGED <<houses, bucket, clock, tickVars, prevVars>>

\* lines 102-110 and 120-131
Diff ==
    /\ pc = "diff"
    /\ LET last_status == status[1][1]
           last_time == status[1][2]
       IN  IF ~IsIso(last_time)
           THEN Return(ErrorResult("Error in retrieving past status or writing it, or sending notification"))
           ELSE IF StatusChanged(current_status, last_status)
           THEN /\ time_diff' = clock - fromisoformat(last_time)
                /\ pc' = "notify"
                /\ UNCHANGED <<i, current_status, battery_percentage, status, result>>
           ELSE Return(SuccessResult)
    /\ UNCHANGED <<houses, bucket, clock, tickVars, prevVars>>

\* lines 113-116 with send_notification, lines 37-66
Notify ==
    /\ pc = "notify"
    /\ \E postFailed \in BOOLEAN :
        /\ notes' = [notes EXCEPT ![house] = Append(@,
                        [topic |-> TOPIC(house),
                         title |-> TITLE(current_status = ON),
                         message |-> MESSAGE(time_diff, battery_percentage, current_status = ON),
                         span |-> time_diff,
                         delivered |-> ~postFailed])]
        /\ IF NotifyRaises(postFailed)
           THEN Return(ErrorResult("Error in retrieving past status or writing it, or sending notification"))
           ELSE /\ pc' = "save"
                /\ UNCHANGED <<i, localVars, result>>
    /\ UNCHANGED <<houses, bucket, clock, fetches, fetchFail, obs, reads, readError,
                   writes, prevVars>>

\* what check_power_status returns when the upload raised (lines 124-131)
UploadFailureResult_swallowed == SuccessResult

UploadFailureResult ==
    ErrorResult("Error in retrieving past status or writing it, or sending notification")

\* the statement after a successful save: continue (line 100) or return (line 123)
AfterSave ==
    IF status = <<>>
    THEN IF i < Len(houses)
         THEN /\ i' = i + 1
              /\ pc' = "fetch"
              /\ current_status' = <<>>
              /\ battery_percentage' = 0
              /\ UNCHANGED <<status, time_diff, result>>
         ELSE Return(<<>>)
    ELSE Return(SuccessResult)

\* a variant that stamps the record with the elapsed time
SaveTime_elapsed == time_diff

\* datetime.now() of line 33
SaveTime == clock

\* save_current_status_to_bucket, called at line 99 or line 119
Save ==
    /\ pc = "save"
    /\ \E uploadFailed \in BOOLEAN :
        /\ writes' = [writes EXCEPT ![house] = Append(@,
                        [text |-> StatusText(current_status, SaveTime), ok |-> ~uploadFailed])]
        /\ IF uploadFailed
           THEN /\ Return(UploadFailureResult)
                /\ UNCHANGED bucket
           ELSE /\ bucket' = [bucket EXCEPT ![blob_name(house)] = <<StatusText(current_status, SaveTime)>>]
                /\ AfterSave
    /\ UNCHANGED <<houses, clock, fetches, fetchFail, obs, reads, readError, notes, prevVars>>

\* the process clock advances
Tock ==
    /\ clock < MaxClock
    /\ clock' = clock + 1
    /\ UNCHANGED <<houses, bucket, pc, i, localVars, result, tickVars, prevVars>>

Next ==
    \/ cloud_function_entry
    \/ Fetch
    \/ Read
    \/ Diff
    \/ Notify
    \/ Save
    \/ Tock

Spec == Init /\ [][Next]_vars

SpecText == InitText /\ [][Next]_vars

TypeOK ==
    /\ pc \in {"idle", "fetch", "read", "diff", "notify", "save", "done"}
    /\ i \in 1..Len(houses)
    /\ clock \in 0..MaxClock
    /\ nticks \in 0..MaxTicks

\* ------------------------------------------------------- observers of a tick
Done == pc = "done"

\* the house's fetch succeeded in this tick, with observation st
Observed(h, st) == obs[h] = <<st>>

ReadOK(h) == reads[h] = 1 /\ h \notin readError

UploadFailed(h) == \E k \in 1..Len(writes[h]) : ~writes[h][k].ok

NotifyFailed(h) == \E k \in 1..Len(notes[h]) : ~notes[h][k].delivered

IsError == result # <<>> /\ result[1].code = 500

\* exactly one upload was attempted for h, of st with a timestamp, and the
\* blob holds it unless the upload failed
OneWriteOf(h, st) ==
    /\ Len(writes[h]) = 1
    /\ \E t \in 0..MaxClock : writes[h][1].text = st \o <<SP>> \o isoformat(t)
    /\ writes[h][1].ok => bucket[blob_name(h)] = <<writes[h][1].text>>

TitleFor(st) == IF st = ON THEN "Electricity is ON!" ELSE "Electricity is OFF."

Transition(h, old, new) ==
    /\ Done
    /\ IsRecord(bucket0[blob_name(h)])
    /\ HeldState(bucket0[blob_name(h)]) = old
    /\ Observed(h, new)
    /\ old # new

TransitionOutcome(h, new) ==
    /\ Len(notes[h]) = 1
    /\ notes[h][1].title = TitleFor(new)
    /\ notes[h][1].topic = <<"home_elec_detector_", h>>
    /\ OneWriteOf(h, new)

\* C1 as stated: a processed house whose record holds S_old, observed at
\* S_new # S_old, gets exactly one notification with the title of S_new and
\* exactly one store write of S_new in that tick.
C1_Original ==
    \A h \in Sites : \A old, new \in {ON, OFF} :
        Transition(h, old, new) => TransitionOutcome(h, new)

\* C1 amended: the same, when the read of the record did not fail.
C1_Transition ==
    \A h \in Sites : \A old, new \in {ON, OFF} :
        Transition(h, old, new) /\ ReadOK(h) => TransitionOutcome(h, new)

C1_Witness ==
    \E h \in Sites :
        /\ Transition(h, OFF, ON)
        /\ ReadOK(h)
        /\ Len(notes[h]) = 1
        /\ notes[h][1].title = "Electricity is ON!"
        /\ Len(writes[h]) = 1
        /\ writes[h][1].ok

Unchanged(h, st) ==
    /\ Done
    /\ IsRecord(bucket0[blob_name(h)])
    /\ HeldState(bucket0[blob_name(h)]) = st
    /\ Observed(h, st)

NoEffect(h) ==
    /\ writes[h] = <<>>
    /\ notes[h] = <<>>
    /\ bucket[blob_name(h)] = bucket0[blob_name(h)]

\* C2 as stated: a house processed with a record (S, t0) and observed at S
\* gets no store write and no notification; its record is unchanged.
C2_Original ==
    \A h \in Sites : \A st \in {ON, OFF} : Unchanged(h, st) => NoEffect(h)

\* C2 amended: the same, when the read of the record did not fail.
C2_NoChange ==
    \A h \in Sites : \A st \in {ON, OFF} :
        Unchanged(h, st) /\ ReadOK(h) => NoEffect(h)

C2_Witness ==
    \E h \in Sites :
        /\ Unchanged(h, OFF)
        /\ ReadOK(h)
        /\ result = SuccessResult
        /\ clock > 0

\* C3: a house without a blob whose fetch succeeded gets exactly one store
\* write, of the observed state, and no notification.
C3_Bootstrap ==
    \A h \in Sites : \A st \in {ON, OFF} :
        Done /\ bucket0[blob_name(h)] = <<>> /\ Observed(h, st)
            => OneWriteOf(h, st) /\ notes[h] = <<>>

C3_Witness ==
    \E h \in Sites :
        /\ Done
        /\ bucket0[blob_name(h)] = <<>>
        /\ Observed(h, ON)
        /\ Len(writes[h]) = 1
        /\ writes[h][1].ok
        /\ bucket[blob_name(h)] # <<>>

\* C4 as stated: when the fetch or the store write of house a failed in a
\* tick over a and b, house b was fetched and, its fetch having succeeded,
\* its record was read in the same tick.
C4_Isolation ==
    Done =>
        \A a, b \in Configured :
            a # b /\ (fetchFail[a] # "none" \/ UploadFailed(a))
                => fetches[b] = 1 /\ (obs[b] # <<>> => reads[b] = 1)

TickFaultFree ==
    /\ \A h \in Sites : fetchFail[h] = "none" /\ ~UploadFailed(h) /\ ~NotifyFailed(h)
    /\ readError = {}

\* C5 as stated: in a tick without a failed fetch, store or notify operation
\* (over blobs that are absent or records), every configured house was
\* fetched once and its record read once when check_power_status returned.
C5_FullPass ==
    Done /\ TickFaultFree /\ (\A h \in Sites : bucket0[blob_name(h)] = <<>> \/ IsRecord(bucket0[blob_name(h)]))
        => \A h \in Configured : fetches[h] = 1 /\ reads[h] = 1

\* the previous tick ran over a sound blob, fetched h and did not fail to upload
PrevClean(h) ==
    /\ h \in prevSound
    /\ prevObs[h] # <<>>
    /\ h \notin prevWriteFail

SingleSite(h) == houses = <<h>>

ExpectedNotes(h) == IF PrevClean(h) /\ obs[h] # prevObs[h] THEN 1 ELSE 0

\* C6 as stated: for a single house and ticks without a failed fetch or store
\* write, starting without a record, a tick posts one notification when its
\* observation differs from the previous tick's, and none otherwise; the
\* first tick posts none.
C6_Original ==
    \A h \in Sites :
        /\ Done
        /\ SingleSite(h)
        /\ obs[h] # <<>>
        /\ ~UploadFailed(h)
        /\ IF nticks = 1 THEN bucket0[blob_name(h)] = <<>> ELSE PrevClean(h)
        => Len(notes[h]) = ExpectedNotes(h)

\* C6 amended: the same, for ticks in which no read of the record fails either.
C6_ExactlyOnce ==
    \A h \in Sites :
        /\ Done
        /\ SingleSite(h)
        /\ obs[h] # <<>>
        /\ ~UploadFailed(h)
        /\ h \notin readError
        /\ IF nticks = 1 THEN bucket0[blob_name(h)] = <<>> ELSE PrevClean(h)
        => Len(notes[h]) = ExpectedNotes(h)

C6_Witness ==
    \E h \in Sites :
        /\ Done
        /\ SingleSite(h)
        /\ nticks = 3
        /\ PrevClean(h)
        /\ prevNotes[h] = 0
        /\ obs[h] # <<>>
        /\ obs[h] # prevObs[h]
        /\ ~UploadFailed(h)
        /\ h \notin readError
        /\ Len(notes[h]) = 1

ReadAnomaly(h) ==
    \/ bucket0[blob_name(h)] = <<>>
    \/ h \in readError
    \/ ~IsRecord(bucket0[blob_name(h)])

\* C8 as stated: whenever the read of a fetched house's record goes wrong
\* (no blob, download error, or text that is not "<ON|OFF> <timestamp>"),
\* the tick writes the observation, posts no notification and returns no
\* error result (the upload not failing).
C8_ReadAnomaly ==
    \A h \in Sites : \A st \in {ON, OFF} :
        Done /\ Observed(h, st) /\ reads[h] = 1 /\ ReadAnomaly(h) /\ ~UploadFailed(h)
            => OneWriteOf(h, st) /\ notes[h] = <<>> /\ ~IsError

\* C9: when posting the notification of a transition failed, the store write
\* is still attempted in the same tick and, unless the upload itself fails,
\* records the new state and the tick returns status 200.
C9_NotifyNotFatal ==
    \A h \in Sites :
        Done /\ NotifyFailed(h)
            => /\ Len(notes[h]) = 1
               /\ obs[h] # <<>>
               /\ OneWriteOf(h, obs[h][1])
               /\ (~UploadFailed(h) => result = SuccessResult)

C9_Witness ==
    \E h \in Sites :
        /\ Done
        /\ NotifyFailed(h)
        /\ Len(writes[h]) = 1
        /\ writes[h][1].ok
        /\ bucket[blob_name(h)] # bucket0[blob_name(h)]
        /\ result = SuccessResult

\* what a failed upload leaves behind
WriteFailureSurfaced(h) ==
    Done /\ UploadFailed(h)
        => /\ IsError
           /\ bucket[blob_name(h)] = bucket0[blob_name(h)]
           /\ (IsRecord(bucket0[blob_name(h)]) /\ ReadOK(h) => Len(notes[h]) = 1)

\* the previous tick notified for h and then failed to upload, and this tick
\* observed h as the previous one did
SameObservationAgain(h) ==
    /\ Done
    /\ h \in prevWriteFail
    /\ prevNotes[h] = 1
    /\ obs[h] # <<>>
    /\ obs[h] = prevObs[h]

\* C10 as stated: a failed store write makes the tick return status 500,
\* leaves the record as it was and the notification sent; the next tick with
\* the same observation notifies again.
C10_Original ==
    \A h \in Sites :
        /\ WriteFailureSurfaced(h)
        /\ (SameObservationAgain(h) => Len(notes[h]) = 1)

\* C10 amended: the same, the next tick notifying again when its read of the
\* record does not fail.
C10_WriteFailure ==
    \A h \in Sites :
        /\ WriteFailureSurfaced(h)
        /\ (SameObservationAgain(h) /\ ReadOK(h) => Len(notes[h]) = 1)

C10_Witness ==
    \E h \in Sites :
        /\ SameObservationAgain(h)
        /\ ReadOK(h)
        /\ Len(notes[h]) = 1
        /\ UploadFailed(h)
        /\ IsError
        /\ bucket[blob_name(h)] = bucket0[blob_name(h)]

SoundBlobs == \A h \in Sites : bucket0[blob_name(h)] = <<>> \/ IsRecord(bucket0[blob_name(h)])

TickFailed == \E h \in Sites : fetchFail[h] # "none" \/ UploadFailed(h)

\* C11 as stated: check_power_status (over blobs that are absent or records)
\* returns a (message, status_code) pair, with status 500 when a fetch or a
\* store write failed in the tick and 200 otherwise, a tick that bootstrapped
\* every site included.
C11_ReturnValue ==
    Done /\ SoundBlobs
        => /\ result # <<>>
           /\ result[1].code = IF TickFailed THEN 500 ELSE 200

\* the timestamp of a record
RecordTime(b) == fromisoformat(SubSeq(b[1], Len(HeldState(b)) + 2, Len(b[1])))

\* C12: whenever a step replaces a site's record, the new blob is a record
\* whose timestamp is not earlier than the one it replaces (the clock of the
\* model never goes back).
C12_Monotonic ==
    [][\A h \in Sites :
          IsRecord(bucket[blob_name(h)]) /\ bucket'[blob_name(h)] # bucket[blob_name(h)]
              => /\ IsRecord(bucket'[blob_name(h)])
                 /\ RecordTime(bucket'[blob_name(h)]) >= RecordTime(bucket[blob_name(h)])]_vars

C12_Witness ==
    \E h \in Sites :
        /\ nticks = 3
        /\ IsRecord(bucket0[blob_name(h)])
        /\ RecordTime(bucket0[blob_name(h)]) = 1
        /\ IsRecord(bucket[blob_name(h)])
        /\ RecordTime(bucket[blob_name(h)]) = 2

Uploaded(h) == \E k \in 1..Len(writes[h]) : writes[h][k].ok

\* C13 as stated: a tick uploads over an existing record only when its
\* observation differs from the state the record holds, and never leaves
\* the site without a blob.
C13_Original ==
    \A h \in Sites :
        IsRecord(bucket0[blob_name(h)])
            => /\ bucket[blob_name(h)] # <<>>
               /\ Uploaded(h)
                    => obs[h] # <<>> /\ obs[h][1] # HeldState(bucket0[blob_name(h)])

\* C13 amended: the same, for a tick whose read of the record did not fail.
C13_Lifecycle ==
    \A h \in Sites :
        IsRecord(bucket0[blob_name(h)])
            => /\ bucket[blob_name(h)] # <<>>
               /\ Uploaded(h) /\ h \notin readError
                    => obs[h] # <<>> /\ obs[h][1] # HeldState(bucket0[blob_name(h)])

C13_Witness ==
    \E h \in Sites :
        /\ Done
        /\ IsRecord(bucket0[blob_name(h)])
        /\ HeldState(bucket0[blob_name(h)]) = ON
        /\ Observed(h, OFF)
        /\ ReadOK(h)
        /\ Uploaded(h)
        /\ bucket[blob_name(h)] # bucket0[blob_name(h)]
        /\ IsRecord(bucket[blob_name(h)])

\* the clock readings a run from InitText can stamp a record with
StampsSeen == {s + d : s \in Stamps, d \in 0..MaxClock}

\* the house's record has been read in this tick, by a download that did not
\* fail, and not written since
ReadBack == pc \in {"diff", "notify", "save"} /\ ReadOK(house) /\ writes[house] = <<>>

\* C14: when the blob holds the text save_current_status_to_bucket uploads
\* for (st, t), get_last_status_from_bucket returns the pair of st and a
\* timestamp text that datetime.fromisoformat turns into t.
C14_RoundTrip ==
    \A st \in {ON, OFF} : \A t \in StampsSeen :
        ReadBack /\ bucket[blob_name(house)] = <<StatusText(st, t)>>
            => /\ Len(status) = 1
               /\ status[1][1] = st
               /\ IsIso(status[1][2])
               /\ fromisoformat(status[1][2]) = t

C14_Witness ==
    /\ ReadBack
    /\ nticks = 2
    /\ Len(status) = 1
    /\ status[1][1] = ON
    /\ IsIso(status[1][2])
    /\ fromisoformat(status[1][2]) = 3725

\* the text the claim gives for a span of s seconds is d
DurationAsClaimed(s, d) ==
    LET H == s \div 3600
        M == (s % 3600) \div 60
    IN  /\ H > 0 /\ M > 0 => d = <<ToString(H), "Hours", ToString(M), "Minutes">>
        /\ H > 0 /\ M = 0 => d = <<ToString(H), "Hours">>
        /\ H = 0 /\ M > 0 => d = <<ToString(M), "Minutes">>
        /\ s < 60 => d = <<"Less than a minute">>
        /\ s = 45 => d = <<"Less than a minute">>
        /\ s = 125 => d = <<"2", "Minutes">>
        /\ s = 3600 => d = <<"1", "Hours">>
        /\ s = 3725 => d = <<"1", "Hours", "2", "Minutes">>

\* C15: every notification posted for a non-negative span of s seconds
\* carries the duration text the claim gives for s: hours and minutes,
\* hours alone, minutes alone or "Less than a minute", as in its table.
C15_Duration ==
    \A h \in Sites : \A k \in 1..Len(notes[h]) :
        notes[h][k].span >= 0
            => DurationAsClaimed(notes[h][k].span, notes[h][k].message.duration)

C15_Witness ==
    \E h \in Sites :
        /\ Len(notes[h]) = 1
        /\ notes[h][1].span = 3725
        /\ notes[h][1].message.duration = <<"1", "Hours", "2", "Minutes">>

\* what each step of a site's pipeline finds done before it
StepOrder(h) ==
    /\ fetches'[h] > fetches[h]
         => reads[h] = 0 /\ notes[h] = <<>> /\ writes[h] = <<>>
    /\ reads'[h] > reads[h]
         => fetches[h] = 1 /\ obs[h] # <<>> /\ notes[h] = <<>> /\ writes[h] = <<>>
    /\ Len(notes'[h]) > Len(notes[h])
         => /\ reads[h] = 1
            /\ obs[h] # <<>>
            /\ status # <<>>
            /\ notes[h] = <<>>
            /\ writes[h] = <<>>
            /\ writes'[h] = <<>>
    /\ Len(writes'[h]) > Len(writes[h])
         => /\ reads[h] = 1
            /\ obs[h] # <<>>
            /\ writes[h] = <<>>
            /\ status # <<>> => Len(notes[h]) = 1

\* C16: in a tick each site is fetched, then its record read, then (the
\* decision made) the notification posted, then the state uploaded; on a
\* transition the upload follows the notification, and no read or upload of
\* a site precedes its successful fetch.
C16_PipelineOrder == [][\A h \in Sites : StepOrder(h)]_vars

C16_Witness ==
    \E h \in Sites :
        /\ Done
        /\ fetches[h] = 1
        /\ reads[h] = 1
        /\ Len(notes[h]) = 1
        /\ Len(writes[h]) = 1
        /\ IsRecord(bucket0[blob_name(h)])

\* C17 as stated: on a transition from a record (S_old, t0) the span the
\* notification reports is t1 - t0, t1 being the timestamp the same tick
\* writes with the new state.
C17_Consistency ==
    \A h \in Sites :
        /\ Done
        /\ IsRecord(bucket0[blob_name(h)])
        /\ ReadOK(h)
        /\ Len(notes[h]) = 1
        /\ Uploaded(h)
        => notes[h][1].span
             = RecordTime(bucket[blob_name(h)]) - RecordTime(bucket0[blob_name(h)])

\* C18: a step taken while site A is processed leaves every other site's
\* record and notifications as they were, and every notification posted for
\* A goes to the topic of A, which is the topic of no other site.
C18_Independence ==
    [][pc \notin {"idle", "done"}
          => \A b \in Sites \ {house} :
                /\ bucket'[blob_name(b)] = bucket[blob_name(b)]
                /\ notes'[b] = notes[b]
                /\ \A k \in 1..Len(notes'[house]) :
                      /\ notes'[house][k].topic = <<"home_elec_detector_", house>>
                      /\ notes'[house][k].topic # <<"home_elec_detector_", b>>]_vars

C18_Witness ==
    \E a, b \in Configured :
        /\ a # b
        /\ Done
        /\ Len(notes[a]) = 1
        /\ Uploaded(a)
        /\ bucket[blob_name(a)] # bucket0[blob_name(a)]
        /\ IsRecord(bucket0[blob_name(b)])
        /\ bucket[blob_name(b)] = bucket0[blob_name(b)]
        /\ notes[b] = <<>>

\* C19 as stated: after a tick in which a site's fetch succeeded and no
\* store write failed for it, the site's blob is a record whose state is
\* the state observed in that tick.
C19_StoreTracks ==
    \A h \in Sites :
        Done /\ obs[h] # <<>> /\ ~UploadFailed(h)
            => /\ IsRecord(bucket[blob_name(h)])
               /\ HeldState(bucket[blob_name(h)]) = obs[h][1]

====
